---- MODULE Spec2Model ----
(***************************************************************************)
(* Model of the path-mapping and piece-size-recommendation core of         *)
(* mk_qbittorrent:                                                         *)
(*   src/src/utils/docker_path_mapper.py   DockerPathMapper                *)
(*   src/src/core/torrent_manager.py       TorrentManager piece sizing,    *)
(*                                         recursive scan, path analysis,  *)
(*                                         torrent creation and the        *)
(*                                         client session                  *)
(*                                                                         *)
(* The daemon is the environment: every call of its API (login, directory  *)
(* listing, add-task, status poll, delete) returns or raises as the        *)
(* environment chooses at that call.                                       *)
(*                                                                         *)
(* A Python str is a sequence of one-character strings, so that            *)
(* str.startswith, str.lstrip, str.rstrip, len and slicing are the         *)
(* character-wise operations of the source, and a pathlib.Path is the      *)
(* sequence of its components.  The host filesystem has no symbolic links  *)
(* and the callers hand absolute paths to the mapper, so Path.resolve()    *)
(* only normalises the separators.                                         *)
(***************************************************************************)
EXTENDS Integers, Sequences, FiniteSets, TLC

\* ------------------------------------------------------------------------
\* Bounds of the path-mapper model.
\* ------------------------------------------------------------------------
MaxRules == 2
MaxHostLen == 4
MaxContainerLen == 3
MaxPathLen == 4

Alphabet == {"/", "a"}

NoPath == <<"?">>

RECURSIVE StringsOfLen(_)
StringsOfLen(n) ==
    IF n = 0 THEN {<<>>}
    ELSE {Append(s, c) : s \in StringsOfLen(n - 1), c \in Alphabet}

\* Absolute path strings of at most n characters.  A string starting with
\* exactly two separators is left out: POSIX (and pathlib) give it a meaning
\* of its own.
RawPaths(n) ==
    {s \in UNION {StringsOfLen(k) : k \in 1..n} :
        /\ s[1] = "/"
        /\ Len(s) >= 2 => s[2] # "/"}

\* ------------------------------------------------------------------------
\* Python str and pathlib primitives.
\* ------------------------------------------------------------------------
Min(S) == CHOOSE x \in S : \A y \in S : x <= y

StartsWith(s, prefix) ==
    /\ Len(prefix) <= Len(s)
    /\ SubSeq(s, 1, Len(prefix)) = prefix

RECURSIVE LStrip(_)
LStrip(s) ==
    IF s # <<>> /\ Head(s) = "/" THEN LStrip(Tail(s)) ELSE s

RECURSIVE RStrip(_)
RStrip(s) ==
    IF s # <<>> /\ s[Len(s)] = "/" THEN RStrip(SubSeq(s, 1, Len(s) - 1)) ELSE s

Slice(s, from) == SubSeq(s, from + 1, Len(s))

\* Length of the leading run of non-separator characters of a string that
\* starts with one.
RunLen(s) ==
    CHOOSE n \in 1..Len(s) :
        /\ \A i \in 1..n : s[i] # "/"
        /\ n = Len(s) \/ s[n + 1] = "/"

\* Path(s).parts without the root: the non-empty components of s.
RECURSIVE Parts(_)
Parts(s) ==
    IF s = <<>> THEN <<>>
    ELSE IF Head(s) = "/" THEN Parts(Tail(s))
    ELSE <<SubSeq(s, 1, RunLen(s))>> \o Parts(Slice(s, RunLen(s)))

RECURSIVE JoinParts(_)
JoinParts(parts) ==
    IF parts = <<>> THEN <<>>
    ELSE <<"/">> \o Head(parts) \o JoinParts(Tail(parts))

\* str(Path(s)) for an absolute s: separators collapsed, trailing separator
\* dropped, the root alone stays "/".
PurePath(s) ==
    IF Parts(s) = <<>> THEN <<"/">> ELSE JoinParts(Parts(s))

\* The working directory of the process.
Cwd == <<"/", "a", "a">>

\* str(Path(s).resolve()) on a filesystem without symbolic links: an absolute
\* s is normalised, the empty string is the working directory.
Resolve(s) == IF s = <<>> THEN Cwd ELSE PurePath(s)

\* Path(a).resolve().is_relative_to(Path(b).resolve()): component-wise.
IsRelativeTo(a, b) ==
    LET pa == Parts(Resolve(a))
        pb == Parts(Resolve(b))
    IN  /\ Len(pb) <= Len(pa)
        /\ SubSeq(pa, 1, Len(pb)) = pb

\* ------------------------------------------------------------------------
\* DockerPathMapper
\* ------------------------------------------------------------------------
Rule(h, c) == [host_prefix |-> h, container_prefix |-> c]

\* As InsertByLen, but a rule goes before the rules of the same length
\* already placed.
InsertByLenUnstable(r, s) ==
    LET k == Cardinality({i \in 1..Len(s) :
                            Len(s[i].host_prefix) > Len(r.host_prefix)})
    IN  SubSeq(s, 1, k) \o <<r>> \o SubSeq(s, k + 1, Len(s))

\* sorted(items, key=lambda x: len(x[0]), reverse=True): stable, so rules
\* whose raw host prefixes have the same length keep their configured order.
InsertByLen(r, s) ==
    LET k == Cardinality({i \in 1..Len(s) :
                            Len(s[i].host_prefix) >= Len(r.host_prefix)})
    IN  SubSeq(s, 1, k) \o <<r>> \o SubSeq(s, k + 1, Len(s))

RECURSIVE SortAcc(_, _)
SortAcc(rest, acc) ==
    IF rest = <<>> THEN acc
    ELSE SortAcc(Tail(rest), InsertByLen(Head(rest), acc))

SortedMappings(mapping) == SortAcc(mapping, <<>>)

Rewrite(path, matched, target) ==
    LET relative_path == LStrip(Slice(path, Len(matched)))
    IN  IF relative_path # <<>>
        THEN RStrip(target) \o <<"/">> \o relative_path
        ELSE RStrip(target)

host_to_container(mapping, sorted, host_path) ==
    IF mapping = <<>> THEN host_path
    ELSE LET hp == Resolve(host_path)
             hits == {i \in 1..Len(sorted) :
                        StartsWith(hp, Resolve(sorted[i].host_prefix))}
         IN  IF hits = {} THEN hp
             ELSE Rewrite(hp, Resolve(sorted[Min(hits)].host_prefix),
                          sorted[Min(hits)].container_prefix)

container_to_host(mapping, sorted, container_path) ==
    IF mapping = <<>> THEN container_path
    ELSE LET cp == PurePath(container_path)
             hits == {i \in 1..Len(sorted) :
                        StartsWith(cp, sorted[i].container_prefix)}
         IN  IF hits = {} THEN cp
             ELSE Rewrite(cp, sorted[Min(hits)].container_prefix,
                          sorted[Min(hits)].host_prefix)

is_path_mapped(mapping, sorted, host_path) ==
    IF mapping = <<>> THEN FALSE
    ELSE \E i \in 1..Len(sorted) :
            StartsWith(Resolve(host_path), Resolve(sorted[i].host_prefix))

\* The issues of validate_mapping, one per ordered pair of rules with
\* different keys whose resolved host prefixes are nested.
Overlaps(a, b) == IsRelativeTo(a, b) \/ IsRelativeTo(b, a)

\* As IssuesFrom, but two rules count as different only when their resolved
\* host prefixes differ.
RECURSIVE IssuesFromResolvedKeys(_, _, _)
IssuesFromResolvedKeys(mapping, i, j) ==
    IF i > Len(mapping) THEN <<>>
    ELSE IF j > Len(mapping) THEN IssuesFromResolvedKeys(mapping, i + 1, 1)
    ELSE (IF /\ Resolve(mapping[i].host_prefix) # Resolve(mapping[j].host_prefix)
             /\ Overlaps(mapping[i].host_prefix, mapping[j].host_prefix)
          THEN <<<<mapping[i].host_prefix, mapping[j].host_prefix>>>>
          ELSE <<>>) \o IssuesFromResolvedKeys(mapping, i, j + 1)

RECURSIVE IssuesFrom(_, _, _)
IssuesFrom(mapping, i, j) ==
    IF i > Len(mapping) THEN <<>>
    ELSE IF j > Len(mapping) THEN IssuesFrom(mapping, i + 1, 1)
    ELSE (IF /\ mapping[i].host_prefix # mapping[j].host_prefix
             /\ Overlaps(mapping[i].host_prefix, mapping[j].host_prefix)
          THEN <<<<mapping[i].host_prefix, mapping[j].host_prefix>>>>
          ELSE <<>>) \o IssuesFrom(mapping, i, j + 1)

RECURSIVE WarningsFrom(_, _, _)
WarningsFrom(mapping, i, existing) ==
    IF i > Len(mapping) THEN <<>>
    ELSE (IF mapping[i].host_prefix \in existing THEN <<>>
          ELSE <<mapping[i].host_prefix>>) \o WarningsFrom(mapping, i + 1, existing)

\* As validate_mapping, but a missing host prefix makes the mapping invalid.
validate_mapping_existing(mapping, existing) ==
    LET issues == IssuesFrom(mapping, 1, 1)
        warnings == WarningsFrom(mapping, 1, existing)
    IN  [issues |-> issues,
         warnings |-> warnings,
         is_valid |-> Len(issues) = 0 /\ Len(warnings) = 0]

validate_mapping(mapping, existing) ==
    LET issues == IssuesFrom(mapping, 1, 1)
    IN  [issues |-> issues,
         warnings |-> WarningsFrom(mapping, 1, existing),
         is_valid |-> Len(issues) = 0]

\* ------------------------------------------------------------------------
\* TorrentManager piece sizing
\*
\* Sizes are counted in units of `unit` bytes, unit 1 (bytes) or 1024 (KiB):
\* total_bytes = total * unit.  Piece counts, the waste ratio and the file
\* alignment only compare sizes with each other, so they are the same in
\* either unit; KiB keeps a total of several GiB inside the integers of the
\* model checker.  A float is the exact rational it stands for, and
\* round(x, 2) is the nearest integer number of hundredths.  Where the exact
\* value lies halfway between two hundredths, the binary double lies just
\* above or just below it and Python rounds accordingly: ties_up says which
\* way; the model rounds all the ties of one call the same way.
\* ------------------------------------------------------------------------
Pow2(n) == 2 ^ n

\* standard_sizes: 16 KB .. 32 MB
standard_sizes(unit) == [i \in 1..12 |-> ((16 * 1024) \div unit) * Pow2(i - 1)]

Abs(x) == IF x < 0 THEN -x ELSE x

Max(a, b) == IF a >= b THEN a ELSE b

\* a * f1 * f2 * ... / d as integer part and remainder, one factor at a time.
RECURSIVE ScaleBy(_, _, _)
ScaleBy(q, factors, d) ==
    IF factors = <<>> THEN q
    ELSE ScaleBy([int |-> q.int * Head(factors) + (q.rem * Head(factors)) \div d,
                  rem |-> (q.rem * Head(factors)) % d],
                 Tail(factors), d)

Ratio(a, factors, d) == ScaleBy([int |-> a \div d, rem |-> a % d], factors, d)

\* round() of int + rem/d to an integer.
Round(q, d, ties_up) ==
    IF 2 * q.rem < d THEN q.int
    ELSE IF 2 * q.rem > d THEN q.int + 1
    ELSE IF ties_up THEN q.int + 1 ELSE q.int

\* round((n - rem/d) / 2) for an integer n and 0 <= rem < d.
RoundHalfOf(n, rem, d, ties_up) ==
    IF n % 2 = 0 THEN n \div 2
    ELSE IF rem > 0 THEN (n - 1) \div 2
    ELSE IF ties_up THEN (n + 1) \div 2 ELSE (n - 1) \div 2

\* Floor instead of ceiling division.
FloorDiv(total_bytes, size) == total_bytes \div size

\* (total_bytes + size - 1) // size
CeilDiv(total_bytes, size) == (total_bytes + size - 1) \div size

\* waste_bytes: the padding of the last piece.
WasteBytes(total_bytes, piece_size) ==
    LET last_piece_bytes == total_bytes % piece_size
    IN  piece_size - (IF last_piece_bytes = 0 THEN piece_size ELSE last_piece_bytes)

\* As NetworkEfficiency, without the floor of 50.
NetworkEfficiencyUnbounded(piece_count) ==
    IF 1000 <= piece_count /\ piece_count <= 4000 THEN 10000
    ELSE IF piece_count < 1000 THEN 10000 - (1000 - piece_count) * 5
    ELSE 10000 - (piece_count - 4000)

\* network_efficiency, in hundredths.
NetworkEfficiency(piece_count) ==
    IF 1000 <= piece_count /\ piece_count <= 4000 THEN 10000
    ELSE IF piece_count < 1000 THEN Max(5000, 10000 - (1000 - piece_count) * 5)
    ELSE Max(5000, 10000 - (piece_count - 4000))

\* alignment_efficiency, in hundredths.  piece_size > avg_file_size * 2 and
\* piece_size < avg_file_size / 10 with avg_file_size = total_bytes / file_count.
AlignmentEfficiency(total_bytes, piece_size, file_count) ==
    IF file_count > 1
    THEN IF piece_size > (2 * total_bytes) \div file_count THEN 8000
         ELSE IF total_bytes > 0
                 /\ piece_size <= (total_bytes - 1) \div (10 * file_count) THEN 8500
         ELSE 10000
    ELSE 10000

\* As RecommendedFor, with small_content reaching up to 1000 pieces.
RecommendedForSmallBelow1000(piece_count, waste_below_one, network_efficiency) ==
    (IF piece_count < 1000 THEN <<"small_content">>
     ELSE IF 1000 <= piece_count /\ piece_count <= 2500 THEN <<"optimal_range">>
     ELSE IF piece_count > 4000 THEN <<"large_content">>
     ELSE <<>>)
    \o (IF waste_below_one THEN <<"minimal_waste">> ELSE <<>>)
    \o (IF network_efficiency > 9500 THEN <<"fast_download">> ELSE <<>>)

\* As RecommendedFor, with optimal_range reaching up to 4000 pieces.
RecommendedForWide(piece_count, waste_below_one, network_efficiency) ==
    (IF piece_count < 500 THEN <<"small_content">>
     ELSE IF 1000 <= piece_count /\ piece_count <= 4000 THEN <<"optimal_range">>
     ELSE IF piece_count > 4000 THEN <<"large_content">>
     ELSE <<>>)
    \o (IF waste_below_one THEN <<"minimal_waste">> ELSE <<>>)
    \o (IF network_efficiency > 9500 THEN <<"fast_download">> ELSE <<>>)

\* recommended_for
RecommendedFor(piece_count, waste_below_one, network_efficiency) ==
    (IF piece_count < 500 THEN <<"small_content">>
     ELSE IF 1000 <= piece_count /\ piece_count <= 2500 THEN <<"optimal_range">>
     ELSE IF piece_count > 4000 THEN <<"large_content">>
     ELSE <<>>)
    \o (IF waste_below_one THEN <<"minimal_waste">> ELSE <<>>)
    \o (IF network_efficiency > 9500 THEN <<"fast_download">> ELSE <<>>)

\* The metrics of one piece size, the waste being waste_bytes / denom.
Metrics(total_bytes, piece_size, piece_count, file_count, waste_bytes, denom, ties_up) ==
    LET net == NetworkEfficiency(piece_count)
        align == AlignmentEfficiency(total_bytes, piece_size, file_count)
        w6000 == Ratio(waste_bytes, <<10, 10, 10, 6>>, denom)
    IN  [raised |-> FALSE,
         score |-> RoundHalfOf(6000 + net + 2 * (align \div 5) - w6000.int,
                               w6000.rem, denom, ties_up),
         waste_percentage |->
            Round(Ratio(waste_bytes, <<10, 10, 10, 10>>, denom), denom, ties_up),
         network_efficiency |-> net,
         alignment_efficiency |-> align,
         recommended_for |->
            RecommendedFor(piece_count,
                           Ratio(waste_bytes, <<10, 10>>, denom).int < 1, net)]

ZeroDivisionError == [raised |-> TRUE]

\* As _calculate_piece_efficiency, but empty content counts as no waste.
calculate_piece_efficiency_guarded(total_bytes, piece_size, piece_count, file_count, ties_up) ==
    IF total_bytes = 0
    THEN Metrics(total_bytes, piece_size, piece_count, file_count, 0, 1, ties_up)
    ELSE Metrics(total_bytes, piece_size, piece_count, file_count,
                 WasteBytes(total_bytes, piece_size), total_bytes, ties_up)

\* _calculate_piece_efficiency: waste_bytes / total_bytes divides by zero for
\* empty content.
calculate_piece_efficiency(total_bytes, piece_size, piece_count, file_count, ties_up) ==
    IF total_bytes = 0 THEN ZeroDivisionError
    ELSE Metrics(total_bytes, piece_size, piece_count, file_count,
                 WasteBytes(total_bytes, piece_size), total_bytes, ties_up)

Option(total_bytes, size, file_count, ties_up) ==
    LET pieces == CeilDiv(total_bytes, size)
        efficiency ==
            calculate_piece_efficiency(total_bytes, size, pieces, file_count, ties_up)
    IN  IF efficiency.raised THEN efficiency
        ELSE [raised |-> FALSE,
              piece_size_bytes |-> size,
              piece_count |-> pieces,
              efficiency_score |-> efficiency.score,
              waste_percentage |-> efficiency.waste_percentage,
              network_efficiency |-> efficiency.network_efficiency,
              recommended_for |-> efficiency.recommended_for]

\* As InsertByScore, for an ascending sort.
InsertByScoreAscending(o, s) ==
    LET k == Cardinality({i \in 1..Len(s) : s[i].efficiency_score <= o.efficiency_score})
    IN  SubSeq(s, 1, k) \o <<o>> \o SubSeq(s, k + 1, Len(s))

\* options.sort(key=efficiency_score, reverse=True): stable.
InsertByScore(o, s) ==
    LET k == Cardinality({i \in 1..Len(s) : s[i].efficiency_score >= o.efficiency_score})
    IN  SubSeq(s, 1, k) \o <<o>> \o SubSeq(s, k + 1, Len(s))

RECURSIVE SortByScore(_, _)
SortByScore(rest, acc) ==
    IF rest = <<>> THEN acc
    ELSE SortByScore(Tail(rest), InsertByScore(Head(rest), acc))

\* As Recommended, but the scan goes on after a switch and ends on the last
\* option that qualifies against options[0].
RecommendedLast(options, target_pieces) ==
    LET closer == {i \in 1..Len(options) :
                     /\ Abs(options[i].piece_count - target_pieces)
                            < Abs(options[1].piece_count - target_pieces)
                     /\ 20 * options[i].efficiency_score
                            >= 19 * options[1].efficiency_score}
    IN  IF closer = {} THEN options[1]
        ELSE options[CHOOSE i \in closer : \A j \in closer : j <= i]

\* The loop over the sorted options: the first option closer to the target
\* than options[0] whose score is at least 0.95 of its score, else options[0].
Recommended(options, target_pieces) ==
    LET closer == {i \in 1..Len(options) :
                     /\ Abs(options[i].piece_count - target_pieces)
                            < Abs(options[1].piece_count - target_pieces)
                     /\ 20 * options[i].efficiency_score
                            >= 19 * options[1].efficiency_score}
    IN  IF closer = {} THEN options[1] ELSE options[Min(closer)]

Take(s, n) == SubSeq(s, 1, IF Len(s) < n THEN Len(s) ELSE n)

\* _calculate_piece_size_options
calculate_piece_size_options(unit, total_bytes, target_pieces, file_count, ties_up) ==
    IF target_pieces = 0 THEN ZeroDivisionError
    ELSE LET sizes == standard_sizes(unit)
             unsorted == [i \in 1..12 |-> Option(total_bytes, sizes[i], file_count, ties_up)]
         IN  IF \E i \in 1..12 : unsorted[i].raised THEN ZeroDivisionError
             ELSE LET options == SortByScore(unsorted, <<>>)
                  IN  [raised |-> FALSE,
                       recommended |-> Recommended(options, target_pieces),
                       options |-> Take(options, 8),
                       ideal_size |-> total_bytes \div target_pieces]

\* estimated_avg_size = 100 * 1024 * 1024, in units.
EstimatedAvgSize(unit) == (100 * 1024 * 1024) \div unit

Failure(message) == [success |-> FALSE, error |-> message]

\* calculate_optimal_piece_size, from the analysis of the path on.
calculate_optimal_piece_size(unit, analysis, target_pieces, ties_up) ==
    IF ~analysis.success THEN analysis
    ELSE LET file_count == analysis.total_file_count
             total_bytes ==
                IF analysis.total_bytes = 0 /\ file_count > 0
                THEN file_count * EstimatedAvgSize(unit)
                ELSE analysis.total_bytes
         IN  IF total_bytes = 0
             THEN Failure("Cannot determine content size for piece calculation")
             ELSE LET piece_calculations ==
                        calculate_piece_size_options(unit, total_bytes, target_pieces,
                                                     file_count, ties_up)
                  IN  IF piece_calculations.raised
                      THEN Failure("Piece size calculation failed")
                      ELSE [success |-> TRUE,
                            total_bytes |-> total_bytes,
                            file_count |-> file_count,
                            target_pieces |-> target_pieces,
                            recommended |-> piece_calculations.recommended,
                            options |-> piece_calculations.options]

\* ------------------------------------------------------------------------
\* Recursive scan of a directory of the daemon (_calculate_recursive_stats)
\* ------------------------------------------------------------------------
\* The scan lists at most 1000 directories (line 1004); the model scales the
\* limit down.
MaxVisited == 3
MaxScanDepth == 2

\* str.endswith('/')
EndsWithSlash(s) == s # <<>> /\ s[Len(s)] = "/"

\* What client.app_get_directory_content(path) gives: the entries of the
\* directory, the directories among them ending with "/", or an exception.
ListingError == [kind |-> "raised", contents |-> <<>>]
Listing(contents) == [kind |-> "listed", contents |-> contents]

\* A file and a directory for every entry.
IsDirectoryAlways(item) == TRUE

\* is_directory = item_str.endswith('/')
IsDirectory(item) == EndsWithSlash(item)

\* f"{current_path}{item_name}" after a trailing "/", else
\* f"{current_path}/{item_name}"
FullPath(current_path, item_name) ==
    IF EndsWithSlash(current_path) THEN current_path \o item_name
    ELSE current_path \o <<"/">> \o item_name

Entry(path, depth) == [path |-> path, depth |-> depth]

\* The stats dict at the start of a scan; total_bytes is never added to.
NewStats == [total_bytes |-> 0, file_count |-> 0, directory_count |-> 0, max_depth |-> 0]

\* The locals of the scan that one loop iteration works on.
Locals(q, st) == [queue |-> q, stats |-> st, raised |-> FALSE]

\* for item in contents: a directory is counted and appended to the queue
\* one level down, a file is counted.
RECURSIVE CountContents(_, _, _, _)
CountContents(contents, s, current_path, depth) ==
    IF contents = <<>> THEN s
    ELSE LET item == Head(contents)
             item_name == RStrip(item)
             counted ==
                IF IsDirectory(item)
                THEN [s EXCEPT !.stats.directory_count = @ + 1,
                               !.queue = Append(@, Entry(FullPath(current_path, item_name),
                                                         depth + 1))]
                ELSE [s EXCEPT !.stats.file_count = @ + 1]
         IN  CountContents(Tail(contents), counted, current_path, depth)

\* As ScanDirectory, but a listing failure gives up the directories that
\* are still queued.
ScanDirectoryAbandoning(response, s, current_path, depth) ==
    IF response.kind = "raised" THEN [s EXCEPT !.queue = <<>>]
    ELSE CountContents(response.contents, s, current_path, depth)

\* As ScanDirectory, but a listing failure of the root is raised.
ScanDirectoryStrictRoot(response, s, current_path, depth) ==
    IF response.kind = "raised" THEN [s EXCEPT !.raised = (depth = 0)]
    ELSE CountContents(response.contents, s, current_path, depth)

\* The try block of one iteration: except Exception prints a warning and
\* continues with the next queued directory.
ScanDirectory(response, s, current_path, depth) ==
    IF response.kind = "raised" THEN s
    ELSE CountContents(response.contents, s, current_path, depth)

\* As LoopCondition, without the limit on the visited directories.
LoopConditionUnlimited(q, seen) == q # <<>>

\* while queue and len(visited) < 1000
LoopCondition(q, seen) == q # <<>> /\ Cardinality(seen) < MaxVisited

\* As Skipped, without the test of visited.
SkippedIfTooDeep(entry, seen, max_depth) == entry.depth > max_depth

\* As Skipped, without the depth limit.
SkippedIfVisited(entry, seen, max_depth) == entry.path \in seen

\* if current_path in visited or depth > max_depth: continue
Skipped(entry, seen, max_depth) == entry.path \in seen \/ entry.depth > max_depth

\* ------------------------------------------------------------------------
\* Path analysis through the daemon (scan_qbittorrent_path and callers)
\* ------------------------------------------------------------------------
\* while '//' in path: path = path.replace('//', '/')
RECURSIVE CollapseSlashes(_)
CollapseSlashes(s) ==
    IF Len(s) < 2 THEN s
    ELSE IF s[1] = "/" /\ s[2] = "/" THEN CollapseSlashes(Tail(s))
    ELSE <<Head(s)>> \o CollapseSlashes(Tail(s))

\* _normalize_qbit_path
normalize_qbit_path(path) ==
    IF path = <<>> THEN <<"/">>
    ELSE LET rooted == IF Head(path) # "/" THEN <<"/">> \o path ELSE path
             single == CollapseSlashes(rooted)
         IN  IF single # <<"/">> /\ EndsWithSlash(single) THEN RStrip(single)
             ELSE single

\* _get_qbit_parent_path, for an empty or absolute path; NoPath is None.
get_qbit_parent_path(path) ==
    IF path = <<>> \/ path = <<"/">> THEN NoPath
    ELSE LET parts == Parts(path)
             parent == IF Len(parts) <= 1 THEN <<"/">>
                       ELSE JoinParts(SubSeq(parts, 1, Len(parts) - 1))
         IN  IF parent = path THEN NoPath ELSE parent

\* os.path.basename: what follows the last separator.
RECURSIVE Basename(_)
Basename(path) ==
    IF path = <<>> \/ path[Len(path)] = "/" THEN <<>>
    ELSE Append(Basename(SubSeq(path, 1, Len(path) - 1)), path[Len(path)])

\* The number of entries of a listing that are files, or directories.
FileEntries(contents) == Cardinality({i \in 1..Len(contents) : ~IsDirectory(contents[i])})
DirectoryEntries(contents) == Cardinality({i \in 1..Len(contents) : IsDirectory(contents[i])})

\* scan_qbittorrent_path when the path was listed as a directory.
ScannedDirectory(contents) ==
    [success |-> TRUE, exists |-> TRUE, is_directory |-> TRUE,
     file_count |-> FileEntries(contents),
     directory_count |-> DirectoryEntries(contents), total_bytes |-> 0]

\* scan_qbittorrent_path when the listing of the parent has the file.
ScannedFile ==
    [success |-> TRUE, exists |-> TRUE, is_directory |-> FALSE,
     file_count |-> 1, total_bytes |-> 0]

\* scan_qbittorrent_path when the path could not be listed and is no file of
\* its parent: "success" stays True and "error" holds the browse error.
ScannedNothing ==
    [success |-> TRUE, exists |-> FALSE, is_directory |-> FALSE,
     file_count |-> 0, total_bytes |-> 0, error |-> "Path not found"]

\* for entry in parent_browse["entries"]: a file named as the path's basename.
HasFile(contents, filename) ==
    \E i \in 1..Len(contents) :
        ~IsDirectory(contents[i]) /\ RStrip(contents[i]) = filename

\* The analysis of a path that was scanned recursively.
RecursiveAnalysis(scan_result, recursive_stats) ==
    [success |-> TRUE,
     exists |-> scan_result.exists,
     is_directory |-> scan_result.is_directory,
     basic_file_count |-> scan_result.file_count,
     total_bytes |-> recursive_stats.total_bytes,
     total_file_count |-> recursive_stats.file_count,
     total_directory_count |-> recursive_stats.directory_count,
     max_depth |-> recursive_stats.max_depth]

\* The analysis of a path whose recursive scan raised, or that is no
\* directory.
BasicAnalysis(scan_result) ==
    [success |-> TRUE,
     exists |-> scan_result.exists,
     is_directory |-> scan_result.is_directory,
     basic_file_count |-> scan_result.file_count,
     total_bytes |-> 0,
     total_file_count |-> scan_result.file_count]

\* ------------------------------------------------------------------------
\* State
\* ------------------------------------------------------------------------
VARIABLES
    path_mapping,       \* self.path_mapping: the rules in configured order
    sorted_mappings,    \* self.sorted_mappings
    call,               \* the last mapper call: [op, arg, via], for
                        \* validate_mapping also the host prefixes on disk
    ret,                \* what that call returned
    request,            \* the last piece-sizing or daemon call and its arguments
    outcome,            \* what that call returned or raised
    pc,                 \* where the daemon call in progress stands
    qbit_client,        \* self._qbit_client: "None" or the logged-in "client"
    scan_result,        \* what scan_qbittorrent_path returned to the analysis
    queue,              \* the scan's queue of (path, depth)
    visited,            \* the scan's set of listed paths
    stats,              \* the scan's stats dict
    trace,              \* every entry the scan dequeued, with what became of it
    task,               \* the torrent creation task of create_torrent
    elapsed_time,       \* the polling loop's elapsed_time
    failures,           \* the daemon APIs that have failed during the call
    session             \* what each _get_qbit_client and cleanup call of a
                        \* client session did, in order

vars == <<path_mapping, sorted_mappings, call, ret, request, outcome, pc,
          qbit_client, scan_result, queue, visited, stats, trace, task,
          elapsed_time, failures, session>>

mapper_vars == <<path_mapping, sorted_mappings, call, ret>>
advisor_vars == <<request, outcome>>
scan_vars == <<queue, visited, stats, trace>>
core_vars == <<pc, qbit_client, scan_result, scan_vars, task, elapsed_time, failures,
               session>>

HostPrefixes == RawPaths(MaxHostLen)
ContainerPrefixes == RawPaths(MaxContainerLen)
QueryPaths == RawPaths(MaxPathLen)

Rules == {Rule(h, c) : h \in HostPrefixes, c \in ContainerPrefixes}

\* A dict has one entry per key.
Mappings ==
    {m \in UNION {[1..n -> Rules] : n \in 0..MaxRules} :
        \A i, j \in 1..Len(m) : i # j => m[i].host_prefix # m[j].host_prefix}

ConfiguredHosts == {path_mapping[i].host_prefix : i \in 1..Len(path_mapping)}

\* The calls read the mapper and never write it, so a behaviour is the
\* construction followed by one call, or by a container_to_host whose result
\* is handed back to host_to_container.
NoCall == [op |-> "none", arg |-> NoPath, via |-> NoPath]

NoRequest == [entry |-> "none"]
NoOutcome == [pending |-> TRUE]
NoScanResult == [success |-> FALSE]
NoTask == [added |-> FALSE]

\* A TorrentManager that has made no daemon call: __init__ sets
\* self._qbit_client = None.
NoDaemonCall ==
    /\ pc = "idle"
    /\ qbit_client = "None"
    /\ scan_result = NoScanResult
    /\ queue = <<>>
    /\ visited = {}
    /\ stats = NewStats
    /\ trace = <<>>
    /\ task = NoTask
    /\ elapsed_time = 0
    /\ failures = {}
    /\ session = <<>>

\* DockerPathMapper.__init__
MapperInit ==
    /\ path_mapping \in Mappings
    /\ sorted_mappings = SortedMappings(path_mapping)
    /\ call = NoCall
    /\ ret = NoPath
    /\ request = NoRequest
    /\ outcome = NoOutcome
    /\ NoDaemonCall

HostToContainer(p) ==
    /\ call = NoCall
    /\ call' = [op |-> "host_to_container", arg |-> p, via |-> NoPath]
    /\ ret' = host_to_container(path_mapping, sorted_mappings, p)
    /\ UNCHANGED <<path_mapping, sorted_mappings, advisor_vars, core_vars>>

ContainerToHost(p) ==
    /\ call = NoCall
    /\ call' = [op |-> "container_to_host", arg |-> p, via |-> NoPath]
    /\ ret' = container_to_host(path_mapping, sorted_mappings, p)
    /\ UNCHANGED <<path_mapping, sorted_mappings, advisor_vars, core_vars>>

\* host_to_container applied to what container_to_host has just returned.
HostToContainerBack ==
    /\ call.op = "container_to_host"
    /\ call' = [op |-> "host_to_container", arg |-> ret, via |-> call.arg]
    /\ ret' = host_to_container(path_mapping, sorted_mappings, ret)
    /\ UNCHANGED <<path_mapping, sorted_mappings, advisor_vars, core_vars>>

IsPathMapped(p) ==
    /\ call = NoCall
    /\ call' = [op |-> "is_path_mapped", arg |-> p, via |-> NoPath]
    /\ ret' = is_path_mapped(path_mapping, sorted_mappings, p)
    /\ UNCHANGED <<path_mapping, sorted_mappings, advisor_vars, core_vars>>

\* validate_mapping; which host prefixes exist on disk is the filesystem's
\* choice.
ValidateMapping(existing) ==
    /\ call = NoCall
    /\ call' = [op |-> "validate_mapping", arg |-> NoPath, via |-> NoPath,
                existing |-> existing]
    /\ ret' = validate_mapping(path_mapping, existing)
    /\ UNCHANGED <<path_mapping, sorted_mappings, advisor_vars, core_vars>>

MapperNext ==
    \/ \E p \in QueryPaths : HostToContainer(p)
    \/ \E p \in QueryPaths : ContainerToHost(p)
    \/ HostToContainerBack
    \/ \E p \in QueryPaths : IsPathMapped(p)
    \/ \E existing \in SUBSET ConfiguredHosts : ValidateMapping(existing)

SpecMapper == MapperInit /\ [][MapperNext]_vars

\* ------------------------------------------------------------------------
\* Piece sizing: inputs and calls
\* ------------------------------------------------------------------------
MaxMantissa == 5
MaxExponent == 26
MaxByteExponent == 14

Units == {1, 1024}

\* Content sizes in units: byte-exact around the multiples of 1 KiB up to
\* some tens of MiB, whole KiB up to some hundreds of GiB, and empty content.
Totals(unit) ==
    {0} \cup
    (IF unit = 1
     THEN {1024 * m * Pow2(e) + d :
             m \in 1..MaxMantissa, e \in 0..MaxByteExponent, d \in {-1, 0, 1}}
     ELSE {m * Pow2(e) : m \in 1..MaxMantissa, e \in 0..MaxExponent})

TargetPieces == {0, 1, 100, 2500, 100000}
FileCounts == {0, 1, 2, 50, 1024}

\* What analyze_qbittorrent_path hands over: a failure, or a success whose
\* total_bytes is 0, the scan counting files but never their sizes.
Analyses ==
    {Failure("Path analysis failed")} \cup
    {[success |-> TRUE, total_bytes |-> 0, total_file_count |-> n] : n \in FileCounts}

AdvisorInit ==
    /\ path_mapping = <<>>
    /\ sorted_mappings = SortedMappings(path_mapping)
    /\ call = NoCall
    /\ ret = NoPath
    /\ request = NoRequest
    /\ outcome = NoOutcome
    /\ NoDaemonCall

\* _calculate_piece_size_options(total_bytes, target_pieces, file_count)
CalculatePieceSizeOptions(unit, total_bytes, target_pieces, file_count, ties_up) ==
    /\ request = NoRequest
    /\ request' = [entry |-> "_calculate_piece_size_options",
                   unit |-> unit,
                   total_bytes |-> total_bytes,
                   target_pieces |-> target_pieces,
                   file_count |-> file_count,
                   ties_up |-> ties_up]
    /\ outcome' = calculate_piece_size_options(unit, total_bytes, target_pieces,
                                               file_count, ties_up)
    /\ UNCHANGED <<mapper_vars, core_vars>>

\* calculate_optimal_piece_size(path, target_pieces)
CalculateOptimalPieceSize(analysis, target_pieces, ties_up) ==
    /\ request = NoRequest
    /\ request' = [entry |-> "calculate_optimal_piece_size",
                   unit |-> 1024,
                   analysis |-> analysis,
                   target_pieces |-> target_pieces,
                   ties_up |-> ties_up]
    /\ outcome' = calculate_optimal_piece_size(1024, analysis, target_pieces, ties_up)
    /\ UNCHANGED <<mapper_vars, core_vars>>

AdvisorNext ==
    \/ \E unit \in Units, ties_up \in BOOLEAN :
         \E total_bytes \in Totals(unit), target_pieces \in TargetPieces,
            file_count \in FileCounts :
             CalculatePieceSizeOptions(unit, total_bytes, target_pieces,
                                       file_count, ties_up)
    \/ \E analysis \in Analyses, target_pieces \in TargetPieces, ties_up \in BOOLEAN :
         CalculateOptimalPieceSize(analysis, target_pieces, ties_up)

SpecAdvisor == AdvisorInit /\ [][AdvisorNext]_vars

\* ------------------------------------------------------------------------
\* Daemon calls: inputs and steps
\* ------------------------------------------------------------------------
\* max_depth: int = 10
DefaultMaxDepth == 10

\* The paths handed to the scan and to the analysis: empty, the root, and a
\* child of the root.
ScanRoots == {<<>>, <<"/">>, <<"/", "a">>}

\* What a directory may hold: nothing, a file "a", a directory "a/", both,
\* two directories, and the same directory twice.
Listings ==
    {<<>>,
     <<<<"a">>>>,
     <<<<"a", "/">>>>,
     <<<<"a">>, <<"a", "/">>>>,
     <<<<"a", "/">>, <<"b", "/">>>>,
     <<<<"a", "/">>, <<"a", "/">>>>}

Responses == {ListingError} \cup {Listing(contents) : contents \in Listings}

\* The exception leaves the entry point.
Uncaught(message) == [raised |-> TRUE]

\* except Exception as e: return {"success": False, "error": ...}
Caught(message) == Failure(message)

\* What the entry point hands back for an analysis: the analysis itself, or
\* the piece sizing made from it.
Answer(analysis) ==
    IF request.entry = "analyze_qbittorrent_path" THEN analysis
    ELSE IF "success" \notin DOMAIN analysis
         THEN Caught("Piece size calculation failed")
    ELSE calculate_optimal_piece_size(request.unit, analysis, request.target_pieces,
                                      request.ties_up)

\* What the end of the scan gives its caller: the stats or the exception to
\* a direct caller; to the analysis the stats, or the basic counts when the
\* scan raised (lines 941-957).
ScanOutcome(raised, st) ==
    IF request.entry = "_calculate_recursive_stats"
    THEN IF raised THEN [raised |-> TRUE] ELSE [raised |-> FALSE, stats |-> st]
    ELSE Answer(IF raised THEN BasicAnalysis(scan_result)
                ELSE RecursiveAnalysis(scan_result, st))

CoreInit ==
    /\ path_mapping = <<>>
    /\ sorted_mappings = SortedMappings(path_mapping)
    /\ call = NoCall
    /\ ret = NoPath
    /\ request = NoRequest
    /\ outcome = NoOutcome
    /\ NoDaemonCall

\* _calculate_recursive_stats(client, base_path, max_depth): up to the loop.
CalculateRecursiveStats(base_path, max_depth) ==
    /\ pc = "idle"
    /\ request = NoRequest
    /\ request' = [entry |-> "_calculate_recursive_stats",
                   path |-> base_path,
                   max_depth |-> max_depth]
    /\ queue' = <<Entry(base_path, 0)>>
    /\ visited' = {}
    /\ stats' = NewStats
    /\ pc' = "scan"
    /\ UNCHANGED <<mapper_vars, session, outcome, qbit_client, scan_result, trace, task,
                   elapsed_time, failures>>

\* One iteration of the loop that ends in continue at line 1008.
ScanSkip ==
    /\ pc = "scan"
    /\ LoopCondition(queue, visited)
    /\ Skipped(Head(queue), visited, request.max_depth)
    /\ queue' = Tail(queue)
    /\ trace' = Append(trace, [path |-> Head(queue).path, depth |-> Head(queue).depth,
                               kind |-> "skipped", contents |-> <<>>])
    /\ UNCHANGED <<mapper_vars, session, advisor_vars, pc, qbit_client, scan_result, visited,
                   stats, task, elapsed_time, failures>>

\* One iteration of the loop that lists the dequeued directory.
ScanList(response) ==
    /\ pc = "scan"
    /\ LoopCondition(queue, visited)
    /\ ~Skipped(Head(queue), visited, request.max_depth)
    /\ LET current == Head(queue)
           deepest == [stats EXCEPT !.max_depth = Max(@, current.depth)]
           s == ScanDirectory(response, Locals(Tail(queue), deepest),
                              current.path, current.depth)
       IN  /\ visited' = visited \cup {current.path}
           /\ trace' = Append(trace, [path |-> current.path, depth |-> current.depth,
                                      kind |-> response.kind,
                                      contents |-> response.contents])
           /\ failures' = IF response.kind = "raised" THEN failures \cup {"listing"}
                          ELSE failures
           /\ queue' = s.queue
           /\ stats' = s.stats
           /\ IF s.raised
              THEN pc' = "done" /\ outcome' = ScanOutcome(TRUE, s.stats)
              ELSE UNCHANGED <<pc, outcome>>
    /\ UNCHANGED <<mapper_vars, session, request, qbit_client, scan_result, task, elapsed_time>>

\* The loop condition fails: the stats are returned.
ScanReturn ==
    /\ pc = "scan"
    /\ ~LoopCondition(queue, visited)
    /\ outcome' = ScanOutcome(FALSE, stats)
    /\ pc' = "done"
    /\ UNCHANGED <<mapper_vars, session, request, qbit_client, scan_result, scan_vars, task,
                   elapsed_time, failures>>

\* analyze_qbittorrent_path(path), include_size and recursive left True: up
\* to _get_qbit_client.
AnalyzeQbittorrentPath(path) ==
    /\ pc = "idle"
    /\ request = NoRequest
    /\ request' = [entry |-> "analyze_qbittorrent_path",
                   path |-> path,
                   max_depth |-> DefaultMaxDepth]
    /\ pc' = IF qbit_client = "None" THEN "login" ELSE "browse"
    /\ UNCHANGED <<mapper_vars, session, outcome, qbit_client, scan_result, scan_vars, task,
                   elapsed_time, failures>>

\* calculate_optimal_piece_size(path, target_pieces): up to _get_qbit_client.
CalculateOptimalPieceSizeOfPath(path, target_pieces, ties_up) ==
    /\ pc = "idle"
    /\ request = NoRequest
    /\ request' = [entry |-> "calculate_optimal_piece_size",
                   path |-> path,
                   max_depth |-> DefaultMaxDepth,
                   unit |-> 1024,
                   target_pieces |-> target_pieces,
                   ties_up |-> ties_up]
    /\ pc' = IF qbit_client = "None" THEN "login" ELSE "browse"
    /\ UNCHANGED <<mapper_vars, session, outcome, qbit_client, scan_result, scan_vars, task,
                   elapsed_time, failures>>

\* _get_qbit_client with no client yet: the credentials are resolved and
\* auth_log_in is called; on any failure self._qbit_client is None again and
\* the exception reaches the entry point's except clause.
Login(result) ==
    /\ pc = "login"
    /\ IF result = "ok"
       THEN /\ qbit_client' = "client"
            /\ pc' = IF request.entry = "create_torrent" THEN "add_task" ELSE "browse"
            /\ UNCHANGED <<outcome, failures>>
       ELSE /\ qbit_client' = "None"
            /\ pc' = "done"
            /\ failures' = IF result = "login_failed" THEN failures \cup {"login"}
                           ELSE failures
            /\ outcome' = IF request.entry = "create_torrent"
                          THEN Caught("Torrent creation failed")
                          ELSE Answer(Caught("Path analysis failed"))
    /\ UNCHANGED <<mapper_vars, session, request, scan_result, scan_vars, task, elapsed_time>>

\* scan_qbittorrent_path: browse_qbittorrent_directory(path).  A directory
\* goes on to the recursive scan; a path that cannot be listed goes on to
\* its parent, or is reported as not existing.
Browse(response) ==
    /\ pc = "browse"
    /\ trace' = Append(trace, [path |-> normalize_qbit_path(request.path), depth |-> 0,
                               kind |-> "browsed", contents |-> response.contents])
    /\ IF response.kind = "listed"
       THEN /\ scan_result' = ScannedDirectory(response.contents)
            /\ queue' = <<Entry(request.path, 0)>>
            /\ visited' = {}
            /\ stats' = NewStats
            /\ pc' = "scan"
            /\ UNCHANGED <<outcome, failures>>
       ELSE /\ failures' = failures \cup {"listing"}
            /\ UNCHANGED <<queue, visited, stats>>
            /\ IF get_qbit_parent_path(request.path) # NoPath
               THEN /\ pc' = "browse_parent"
                    /\ UNCHANGED <<scan_result, outcome>>
               ELSE /\ scan_result' = ScannedNothing
                    /\ outcome' = Answer(BasicAnalysis(ScannedNothing))
                    /\ pc' = "done"
    /\ UNCHANGED <<mapper_vars, session, request, qbit_client, task, elapsed_time>>

\* scan_qbittorrent_path: browse_qbittorrent_directory(parent_path), looking
\* for the path as a file of its parent.
BrowseParent(response) ==
    /\ pc = "browse_parent"
    /\ LET parent_path == get_qbit_parent_path(request.path)
           found == /\ response.kind = "listed"
                    /\ HasFile(response.contents, Basename(request.path))
           result == IF found THEN ScannedFile ELSE ScannedNothing
       IN  /\ trace' = Append(trace, [path |-> normalize_qbit_path(parent_path),
                                      depth |-> 0, kind |-> "browsed",
                                      contents |-> response.contents])
           /\ scan_result' = result
           /\ outcome' = Answer(BasicAnalysis(result))
    /\ failures' = IF response.kind = "raised" THEN failures \cup {"listing"}
                   ELSE failures
    /\ pc' = "done"
    /\ UNCHANGED <<mapper_vars, session, request, qbit_client, queue, visited, stats, task,
                   elapsed_time>>

\* max_wait_time = 300 and poll_interval = 2, in seconds.
max_wait_time == 300
poll_interval == 2

\* As PollLoopCondition, with one more iteration at max_wait_time.
PollLoopConditionInclusive(elapsed) == elapsed <= max_wait_time

\* while elapsed_time < max_wait_time
PollLoopCondition(elapsed) == elapsed < max_wait_time

\* start_seeding as the caller passes it: None, True or False.
StartSeedingArgs == {"None", "True", "False"}

AddTaskResponses == {"ok", "Conflict409Error", "NotFound404Error", "error"}
TaskStatuses == {"Queued", "Running", "Finished", "Failed", "raised"}

\* The task that add_task started, with the number of status polls, what the
\* last one reported and the number of task.delete() calls.
Task(source_path, start_seeding, minimal) ==
    [added |-> TRUE,
     source_path |-> source_path,
     start_seeding |-> start_seeding,
     minimal |-> minimal,
     polls |-> 0,
     status |-> "none",
     deletes |-> 0]

\* task.delete() inside try/except: a failure is printed and dropped.
Deleted(t) == [t EXCEPT !.deletes = @ + 1]

\* create_torrent(source_path, start_seeding=...): the credential check, up
\* to _get_qbit_client.
CreateTorrent(source_path, start_seeding, config_start_seeding, has_credentials) ==
    /\ pc = "idle"
    /\ request = NoRequest
    /\ request' = [entry |-> "create_torrent",
                   path |-> source_path,
                   start_seeding |-> start_seeding,
                   final_start_seeding |->
                       IF start_seeding = "None" THEN config_start_seeding
                       ELSE start_seeding = "True"]
    /\ IF has_credentials
       THEN /\ pc' = IF qbit_client = "None" THEN "login" ELSE "add_task"
            /\ UNCHANGED outcome
       ELSE /\ pc' = "done"
            /\ outcome' = Failure("Missing qBittorrent credentials")
    /\ UNCHANGED <<mapper_vars, session, qbit_client, scan_result, scan_vars, task, elapsed_time,
                   failures>>

\* client.torrentcreator.add_task with all parameters (lines 373-413).
AddTask(response) ==
    /\ pc = "add_task"
    /\ LET container_source_path ==
               host_to_container(path_mapping, sorted_mappings, request.path)
       IN  IF response = "ok"
           THEN /\ task' = Task(container_source_path, request.final_start_seeding, FALSE)
                /\ elapsed_time' = 0
                /\ pc' = "poll"
                /\ UNCHANGED <<outcome, failures>>
           ELSE /\ failures' = failures \cup {"add_task"}
                /\ UNCHANGED <<task, elapsed_time>>
                /\ IF response = "Conflict409Error"
                   THEN /\ outcome' = Failure("Too many torrent creation tasks running")
                        /\ pc' = "done"
                   ELSE IF response = "NotFound404Error"
                   THEN /\ outcome' = Failure("Source path not found")
                        /\ pc' = "done"
                   ELSE /\ pc' = "add_task_minimal"
                        /\ UNCHANGED outcome
    /\ UNCHANGED <<mapper_vars, session, request, qbit_client, scan_result, scan_vars>>

\* The fallback add_task(source_path=...) after any other exception.
AddTaskMinimal(response) ==
    /\ pc = "add_task_minimal"
    /\ LET container_source_path ==
               host_to_container(path_mapping, sorted_mappings, request.path)
       IN  IF response = "ok"
           THEN /\ task' = Task(container_source_path, FALSE, TRUE)
                /\ elapsed_time' = 0
                /\ pc' = "poll"
                /\ UNCHANGED <<outcome, failures>>
           ELSE /\ failures' = failures \cup {"add_task"}
                /\ outcome' = IF response = "Conflict409Error"
                              THEN Failure("Too many torrent creation tasks running")
                              ELSE Failure("Failed to create torrent task")
                /\ pc' = "done"
                /\ UNCHANGED <<task, elapsed_time>>
    /\ UNCHANGED <<mapper_vars, session, request, qbit_client, scan_result, scan_vars>>

\* One iteration of the polling loop: sleep, task.status(), and for a
\* finished or failed task the look-up of the hash, task.delete() and the
\* result.  An exception of task.status() reaches the outer except clause.
Poll(status, info_ok, delete_ok) ==
    /\ pc = "poll"
    /\ PollLoopCondition(elapsed_time)
    /\ elapsed_time' = elapsed_time + poll_interval
    /\ LET polled == [task EXCEPT !.polls = @ + 1, !.status = status]
       IN  IF status = "raised"
           THEN /\ task' = polled
                /\ failures' = failures \cup {"status"}
                /\ outcome' = Caught("Torrent creation failed")
                /\ pc' = "done"
           ELSE IF status = "Finished"
           THEN /\ task' = Deleted(polled)
                /\ failures' = failures
                      \cup (IF request.start_seeding = "True" /\ ~info_ok
                            THEN {"torrents_info"} ELSE {})
                      \cup (IF delete_ok THEN {} ELSE {"delete"})
                /\ outcome' = [success |-> TRUE,
                               auto_seeding |-> request.start_seeding,
                               torrent_path |->
                                   IF request.start_seeding = "True"
                                   THEN "Managed by qBittorrent (auto-seeding)"
                                   ELSE "export_dir/source_name.torrent",
                               task_id |-> "taskID"]
                /\ pc' = "done"
           ELSE IF status = "Failed"
           THEN /\ task' = Deleted(polled)
                /\ failures' = failures \cup (IF delete_ok THEN {} ELSE {"delete"})
                /\ outcome' = [success |-> FALSE,
                               error |-> "Torrent creation failed",
                               task_id |-> "taskID"]
                /\ pc' = "done"
           ELSE /\ task' = polled
                /\ UNCHANGED <<failures, outcome, pc>>
    /\ UNCHANGED <<mapper_vars, session, request, qbit_client, scan_result, scan_vars>>

\* The loop ends with elapsed_time >= max_wait_time: the task is deleted and
\* the time-out reported.
PollTimeout(delete_ok) ==
    /\ pc = "poll"
    /\ ~PollLoopCondition(elapsed_time)
    /\ task' = Deleted(task)
    /\ failures' = failures \cup (IF delete_ok THEN {} ELSE {"delete"})
    /\ outcome' = [success |-> FALSE,
                   error |-> "Torrent creation timed out",
                   task_id |-> "taskID"]
    /\ pc' = "done"
    /\ UNCHANGED <<mapper_vars, session, request, qbit_client, scan_result, scan_vars, elapsed_time>>

ScanStep ==
    \/ ScanSkip
    \/ \E response \in Responses : ScanList(response)
    \/ ScanReturn

CoreNext ==
    \/ \E base_path \in ScanRoots, max_depth \in 0..MaxScanDepth :
         CalculateRecursiveStats(base_path, max_depth)
    \/ ScanStep
    \/ \E path \in ScanRoots : AnalyzeQbittorrentPath(path)
    \/ \E path \in ScanRoots, ties_up \in BOOLEAN :
         CalculateOptimalPieceSizeOfPath(path, 2500, ties_up)
    \/ \E result \in {"ok", "login_failed", "no_credentials"} : Login(result)
    \/ \E response \in Responses : Browse(response)
    \/ \E response \in Responses : BrowseParent(response)
    \/ \E source_path \in ScanRoots \ {<<>>}, start_seeding \in StartSeedingArgs,
          config_start_seeding \in BOOLEAN, has_credentials \in BOOLEAN :
         CreateTorrent(source_path, start_seeding, config_start_seeding, has_credentials)
    \/ \E response \in AddTaskResponses : AddTask(response)
    \/ \E response \in AddTaskResponses \ {"NotFound404Error"} : AddTaskMinimal(response)
    \/ \E status \in TaskStatuses, info_ok \in BOOLEAN, delete_ok \in BOOLEAN :
         Poll(status, info_ok, delete_ok)
    \/ \E delete_ok \in BOOLEAN : PollTimeout(delete_ok)

SpecCore == CoreInit /\ [][CoreNext]_vars

\* ------------------------------------------------------------------------
\* Client session: _get_qbit_client and cleanup called in any order
\* ------------------------------------------------------------------------
MaxSessionCalls == 4

\* What auth_log_in can do: succeed, or raise one of the exceptions that
\* _get_qbit_client turns into a plain Exception.
LogInResults ==
    {"ok", "LoginFailed", "Forbidden403Error", "Unauthorized401Error",
     "APIConnectionError"}

\* As Connected, but the client built at line 89 stays cached when the
\* login raises.
ConnectedKeepingClient(result) == "client"

\* self._qbit_client after auth_log_in: the client, or None again when the
\* login raised (lines 120-128).
Connected(result) == IF result = "ok" THEN "client" ELSE "None"

\* _get_qbit_client up to auth_log_in: a cached client is returned as it
\* is; without credentials the call raises; otherwise the new client is
\* stored in self._qbit_client before it has logged in.
GetQbitClient(has_credentials) ==
    /\ pc = "idle"
    /\ request = NoRequest
    /\ Len(session) < MaxSessionCalls
    /\ IF qbit_client # "None"
       THEN /\ session' = Append(session, "reused")
            /\ UNCHANGED <<pc, qbit_client>>
       ELSE IF ~has_credentials
       THEN /\ session' = Append(session, "no_credentials")
            /\ qbit_client' = "None"
            /\ UNCHANGED pc
       ELSE /\ qbit_client' = "client"
            /\ pc' = "auth_log_in"
            /\ UNCHANGED session
    /\ UNCHANGED <<mapper_vars, advisor_vars, scan_result, scan_vars, task,
                   elapsed_time, failures>>

\* auth_log_in and the rest of _get_qbit_client.
AuthLogIn(result) ==
    /\ pc = "auth_log_in"
    /\ qbit_client' = Connected(result)
    /\ session' = Append(session, IF result = "ok" THEN "logged_in" ELSE result)
    /\ pc' = "idle"
    /\ UNCHANGED <<mapper_vars, advisor_vars, scan_result, scan_vars, task,
                   elapsed_time, failures>>

\* cleanup: auth_log_out in try/except/finally.
Cleanup(logout_ok) ==
    /\ pc = "idle"
    /\ request = NoRequest
    /\ Len(session) < MaxSessionCalls
    /\ IF qbit_client # "None"
       THEN /\ session' = Append(session, IF logout_ok THEN "logged_out"
                                          ELSE "logout_raised")
            /\ qbit_client' = "None"
       ELSE /\ session' = Append(session, "nothing_to_clean")
            /\ UNCHANGED qbit_client
    /\ UNCHANGED <<mapper_vars, advisor_vars, pc, scan_result, scan_vars, task,
                   elapsed_time, failures>>

SessionNext ==
    \/ \E has_credentials \in BOOLEAN : GetQbitClient(has_credentials)
    \/ \E result \in LogInResults : AuthLogIn(result)
    \/ \E logout_ok \in BOOLEAN : Cleanup(logout_ok)

SpecSession == CoreInit /\ [][SessionNext]_vars

\* ------------------------------------------------------------------------
\* Properties of the path mapper (checked under SpecMapper)
\* ------------------------------------------------------------------------
Range(f) == {f[i] : i \in DOMAIN f}

\* The rules whose resolved host prefix the resolved path lies under,
\* component by component.
RulesOver(p) ==
    {i \in 1..Len(path_mapping) : IsRelativeTo(p, path_mapping[i].host_prefix)}

Via(p, i) ==
    Rewrite(Resolve(p), Resolve(path_mapping[i].host_prefix),
            path_mapping[i].container_prefix)

\* The rules whose resolved host prefix is a prefix of the resolved path.
HostHits(p) ==
    {i \in 1..Len(path_mapping) :
        StartsWith(Resolve(p), Resolve(path_mapping[i].host_prefix))}

\* C1: when the resolved host prefixes of several rules are prefixes of the
\* resolved host path, host_to_container rewrites it with a rule whose
\* resolved host prefix is longest, whatever the configured order.
C1_LongestPrefixPriority ==
    (call.op = "host_to_container" /\ HostHits(call.arg) # {}) =>
        \E i \in HostHits(call.arg) :
            /\ \A j \in HostHits(call.arg) :
                 Len(Resolve(path_mapping[j].host_prefix))
                    <= Len(Resolve(path_mapping[i].host_prefix))
            /\ ret = Via(call.arg, i)

\* C2: a host path under no configured host prefix (component-wise, and also
\* when there are no rules) is returned canonicalized and otherwise unchanged.
C2_IdentityFallback ==
    (call.op = "host_to_container" /\ RulesOver(call.arg) = {}) =>
        ret = Resolve(call.arg)

NoOverlap ==
    \A i, j \in 1..Len(path_mapping) :
        i # j => ~Overlaps(path_mapping[i].host_prefix, path_mapping[j].host_prefix)

UnderContainerPrefix(p) ==
    \E i \in 1..Len(path_mapping) :
        LET pp == Parts(p)
            cc == Parts(path_mapping[i].container_prefix)
        IN  Len(cc) <= Len(pp) /\ SubSeq(pp, 1, Len(cc)) = cc

\* C3: with no overlapping host prefixes, a canonical path p under some
\* rule's container prefix survives the round trip:
\* host_to_container(container_to_host(p)) = p.
C3_RoundTrip ==
    (/\ call.op = "host_to_container"
     /\ call.via # NoPath
     /\ call.via = PurePath(call.via)
     /\ NoOverlap
     /\ UnderContainerPrefix(call.via)) =>
        ret = call.via

ContainerHits(p) ==
    {i \in 1..Len(path_mapping) :
        StartsWith(PurePath(p), path_mapping[i].container_prefix)}

\* C4: container_to_host applies, among the rules whose container prefix is a
\* prefix of the container path, one with the longest container prefix.
C4_LongestContainerPrefixFirst ==
    (call.op = "container_to_host" /\ ContainerHits(call.arg) # {}) =>
        \E i \in ContainerHits(call.arg) :
            /\ \A j \in ContainerHits(call.arg) :
                 Len(path_mapping[j].container_prefix)
                    <= Len(path_mapping[i].container_prefix)
            /\ ret = Rewrite(PurePath(call.arg), path_mapping[i].container_prefix,
                             path_mapping[i].host_prefix)

\* C5: is_path_mapped is true exactly for the paths that equal or lie below,
\* component by component, the canonical host prefix of some rule.
C5_MappedIffWithin ==
    call.op = "is_path_mapped" => (ret <=> RulesOver(call.arg) # {})

NestedPair ==
    \E i, j \in 1..Len(path_mapping) :
        /\ i # j
        /\ \/ IsRelativeTo(path_mapping[i].host_prefix, path_mapping[j].host_prefix)
           \/ IsRelativeTo(path_mapping[j].host_prefix, path_mapping[i].host_prefix)

\* C6: validate reports an issue and is_valid = false whenever the host
\* prefixes of two distinct rules are nested, in either direction, and
\* is_valid is true exactly when there is no issue.
C6_OverlapDetection ==
    call.op = "validate_mapping" =>
        /\ ret.is_valid <=> ret.issues = <<>>
        /\ NestedPair => (~ret.is_valid /\ Len(ret.issues) >= 1)

\* Two rules whose host prefixes differ only by a trailing separator have
\* been validated.
C6_Witness ==
    /\ call.op = "validate_mapping"
    /\ NestedPair
    /\ \E i, j \in 1..Len(path_mapping) :
         /\ i # j
         /\ Resolve(path_mapping[i].host_prefix) = Resolve(path_mapping[j].host_prefix)
    /\ ~ret.is_valid

\* ------------------------------------------------------------------------
\* Properties of piece sizing (checked under SpecAdvisor)
\* ------------------------------------------------------------------------
Direct == request.entry = "_calculate_piece_size_options"
Optimal == request.entry = "calculate_optimal_piece_size"

HasRecommendation == "recommended" \in DOMAIN outcome

\* The content size the piece sizes are computed for.
SizedBytes == IF Direct THEN request.total_bytes ELSE outcome.total_bytes

\* C7: piece sizing for content of 0 bytes ends in an error and yields no
\* recommended option.
C7_EmptyContentFails ==
    /\ (Direct /\ request.total_bytes = 0) =>
            (outcome.raised /\ ~HasRecommendation)
    /\ (/\ Optimal
        /\ request.analysis.success
        /\ request.analysis.total_bytes = 0
        /\ request.analysis.total_file_count = 0) =>
            (~outcome.success /\ ~HasRecommendation)

\* Sizing 0 bytes for a positive target has reached the division.
C7_Witness ==
    /\ Direct
    /\ request.total_bytes = 0
    /\ request.target_pieces > 0
    /\ outcome.raised

C9_WasteIsAPercentage ==
    (Direct /\ request.total_bytes > 0 /\ ~outcome.raised) =>
        \A i \in 1..12 :
            LET size == standard_sizes(request.unit)[i]
                e == calculate_piece_efficiency(request.total_bytes, size,
                        CeilDiv(request.total_bytes, size), request.file_count,
                        request.ties_up)
            IN  /\ 0 <= e.waste_percentage
                /\ e.waste_percentage < 10000
                /\ request.total_bytes % size = 0 => e.waste_percentage = 0

TenGiBScenario ==
    /\ Direct
    /\ request.unit = 1024
    /\ request.total_bytes = 10 * 1024 * 1024
    /\ request.file_count = 1
    /\ request.target_pieces = 2500

\* C10 as stated: for 10 GiB in one file and a target of 2500 pieces the
\* recommended option has piece size 4 MiB and the optimal_range tag.
C10_ScenarioAsStated ==
    TenGiBScenario =>
        /\ outcome.recommended.piece_size_bytes = 4 * 1024
        /\ "optimal_range" \in Range(outcome.recommended.recommended_for)

\* C10: for 10 GiB in one file and a target of 2500 pieces the recommended
\* option has piece size 4 MiB and 2560 pieces, which is above the 2500 of
\* optimal_range: its tags are minimal_waste and fast_download.
C10_Scenario ==
    TenGiBScenario =>
        /\ outcome.recommended.piece_size_bytes = 4 * 1024
        /\ outcome.recommended.piece_count = 2560
        /\ outcome.recommended.recommended_for = <<"minimal_waste", "fast_download">>

C10_Witness ==
    /\ TenGiBScenario
    /\ HasRecommendation
    /\ outcome.recommended.piece_count = 2560

\* The file count the piece sizes are computed for.
SizedFiles == IF Direct THEN request.file_count ELSE outcome.file_count

\* The 12 candidate options, and the candidates in descending score order.
RECURSIVE CandidatesFrom(_)
CandidatesFrom(i) ==
    IF i > 12 THEN <<>>
    ELSE <<Option(SizedBytes, standard_sizes(request.unit)[i], SizedFiles,
                  request.ties_up)>> \o CandidatesFrom(i + 1)

Candidates == CandidatesFrom(1)

Ranked == SortByScore(Candidates, <<>>)

\* The ranks of an ordering of the options that are strictly closer to the
\* target than its first option and score at least 95% of its score.
Qualifying(ranked) ==
    {i \in 1..Len(ranked) :
        /\ Abs(ranked[i].piece_count - request.target_pieces)
               < Abs(ranked[1].piece_count - request.target_pieces)
        /\ 100 * ranked[i].efficiency_score >= 95 * ranked[1].efficiency_score}

\* C11: the recommended option is the first one, in descending score order,
\* that is strictly closer to target_pieces than the top-scored option and
\* scores at least 95% of its score; the scan stops there, and with no such
\* option the top-scored option is recommended.
C11_FirstCloserOption ==
    HasRecommendation =>
        LET ranked == Ranked
            qualifying == Qualifying(ranked)
        IN  IF qualifying = {} THEN outcome.recommended = ranked[1]
            ELSE \E i \in qualifying :
                    /\ outcome.recommended = ranked[i]
                    /\ \A j \in 1..(i - 1) : j \notin qualifying

\* Two options qualify and the recommendation is the first of them, which
\* is not the top-scored option.
C11_Witness ==
    /\ HasRecommendation
    /\ LET ranked == Ranked
           qualifying == Qualifying(ranked)
       IN  /\ outcome.recommended # ranked[1]
           /\ \E i, j \in qualifying :
                 i < j /\ outcome.recommended = ranked[i] /\ ranked[j] # ranked[i]

\* The candidates that appear in the returned options list.
Returned(candidates) ==
    {k \in 1..12 : \E i \in 1..Len(outcome.options) : outcome.options[i] = candidates[k]}

\* C12: the returned options list has at most 8 options, they are 8 of the
\* 12 candidates, no candidate left out scores higher than a returned one,
\* and they are in non-increasing order of score.
C12_TopEightInOrder ==
    HasRecommendation =>
        LET candidates == Candidates
            returned == Returned(candidates)
            options == outcome.options
        IN  /\ Len(options) <= 8
            /\ Cardinality(returned) = 8
            /\ \A i \in 1..Len(options) :
                  \E k \in returned : options[i] = candidates[k]
            /\ \A k \in (1..12) \ returned : \A i \in 1..Len(options) :
                  candidates[k].efficiency_score <= options[i].efficiency_score
            /\ \A i, j \in 1..Len(options) :
                  i < j => options[i].efficiency_score >= options[j].efficiency_score

\* The list is cut between two different scores, and the candidates were
\* not generated in descending score order.
C12_Witness ==
    /\ HasRecommendation
    /\ LET candidates == Candidates
           returned == Returned(candidates)
       IN  /\ \E k \in (1..12) \ returned :
                 candidates[k].efficiency_score < outcome.options[8].efficiency_score
           /\ \E k, l \in 1..12 :
                 k < l /\ candidates[k].efficiency_score < candidates[l].efficiency_score
           /\ outcome.options[1].efficiency_score > outcome.options[8].efficiency_score

\* The piece counts of the options that were returned with their metrics.
ReturnedOptions == Range(outcome.options) \cup {outcome.recommended}

\* C19: the network efficiency of an option is 100 for 1000 to 4000 pieces,
\* max(50, 100 - 0.05 * (1000 - piece_count)) below 1000 pieces and
\* max(50, 100 - 0.01 * (piece_count - 4000)) above 4000 pieces, and so lies
\* in [50, 100] (in hundredths: 5 per piece below, 1 per piece above).
C19_NetworkEfficiency ==
    HasRecommendation =>
        \A o \in ReturnedOptions :
            LET n == o.piece_count
                e == o.network_efficiency
            IN  /\ (1000 <= n /\ n <= 4000) => e = 10000
                /\ n < 1000 =>
                      \/ e = 10000 - 5 * (1000 - n) /\ e >= 5000
                      \/ e = 5000 /\ 10000 - 5 * (1000 - n) <= 5000
                /\ n > 4000 =>
                      \/ e = 10000 - (n - 4000) /\ e >= 5000
                      \/ e = 5000 /\ 10000 - (n - 4000) <= 5000
                /\ 5000 <= e /\ e <= 10000

\* One list of options shows the three regimes: the full score, the linear
\* loss below 1000 pieces, and the floor of 50 above 9000 pieces.
C19_Witness ==
    /\ HasRecommendation
    /\ \E o \in ReturnedOptions : o.piece_count > 9000 /\ o.network_efficiency = 5000
    /\ \E o \in ReturnedOptions :
          /\ o.piece_count < 1000
          /\ 5000 < o.network_efficiency /\ o.network_efficiency < 10000
    /\ \E o \in ReturnedOptions :
          /\ 4000 < o.piece_count /\ o.piece_count < 9000
          /\ 5000 < o.network_efficiency /\ o.network_efficiency < 10000
    /\ \E o \in ReturnedOptions : o.network_efficiency = 10000

Tags(o) == Range(o.recommended_for)

\* The padding of the last piece of an option, from its size and count.
Padding(o) == o.piece_count * o.piece_size_bytes - SizedBytes

\* C20: an option carries small_content iff piece_count < 500, optimal_range
\* iff 1000 <= piece_count <= 2500, large_content iff piece_count > 4000,
\* minimal_waste iff its waste is below 1% of the content, and fast_download
\* iff its network efficiency is above 95; it has at most one of the three
\* size tags, and the two quality tags depend on the waste and the network
\* efficiency alone.
C20_Tagging ==
    HasRecommendation =>
        \A o \in ReturnedOptions :
            LET n == o.piece_count
            IN  /\ "small_content" \in Tags(o) <=> n < 500
                /\ "optimal_range" \in Tags(o) <=> (1000 <= n /\ n <= 2500)
                /\ "large_content" \in Tags(o) <=> n > 4000
                /\ "minimal_waste" \in Tags(o) <=>
                        Padding(o) < (SizedBytes + 99) \div 100
                /\ "fast_download" \in Tags(o) <=> o.network_efficiency > 9500
                /\ Cardinality(Tags(o) \cap
                        {"small_content", "optimal_range", "large_content"}) <= 1
                /\ Tags(o) \subseteq {"small_content", "optimal_range", "large_content",
                                      "minimal_waste", "fast_download"}

\* One list of options shows each size tag, an option with no size tag, and
\* the quality tags both with and without a size tag.
C20_Witness ==
    /\ HasRecommendation
    /\ \E o \in ReturnedOptions : Tags(o) = {"small_content", "minimal_waste"}
    /\ \E o \in ReturnedOptions :
          Tags(o) = {"optimal_range", "minimal_waste", "fast_download"}
    /\ \E o \in ReturnedOptions : "large_content" \in Tags(o)
    /\ \E o \in ReturnedOptions :
          /\ 500 <= o.piece_count /\ o.piece_count < 1000
          /\ Tags(o) \subseteq {"minimal_waste", "fast_download"}

\* ------------------------------------------------------------------------
\* Properties of the recursive scan and of the daemon calls (checked under
\* SpecCore)
\* ------------------------------------------------------------------------
\* The entries the scan has dequeued, and those of them it has listed.
Dequeued == SelectSeq(trace, LAMBDA e : e.kind # "browsed")
Listed == SelectSeq(trace, LAMBDA e : e.kind \in {"listed", "raised"})

ScanStarted == pc = "scan" \/ Dequeued # <<>>
ScanDone == pc = "done" /\ request.entry = "_calculate_recursive_stats"

\* The directory entries and the file entries of a listing.
Directories(contents) ==
    {i \in 1..Len(contents) : contents[i][Len(contents[i])] = "/"}
Files(contents) == (1..Len(contents)) \ Directories(contents)

\* The directory and file entries that the listings of a sequence of events
\* returned.
RECURSIVE DirectoriesReturned(_)
DirectoriesReturned(events) ==
    IF events = <<>> THEN 0
    ELSE Cardinality(Directories(Head(events).contents))
            + DirectoriesReturned(Tail(events))

RECURSIVE FilesReturned(_)
FilesReturned(events) ==
    IF events = <<>> THEN 0
    ELSE Cardinality(Files(Head(events).contents)) + FilesReturned(Tail(events))

\* The path of the i-th entry of the listing of an event.
Child(e, i) == FullPath(e.path, RStrip(e.contents[i]))

\* C13: a scan in which listings raised still returns its stats; a failing
\* directory adds no entries, the counts are those of the directories that
\* could be listed, and every directory found within max_depth has been
\* visited unless the limit on visited directories was reached.
C13_FailedListingsAreSkipped ==
    LET listed == Listed
    IN  (ScanDone /\ \E i \in 1..Len(listed) : listed[i].kind = "raised") =>
            /\ ~outcome.raised
            /\ outcome.stats.file_count =
                   FilesReturned(SelectSeq(listed, LAMBDA e : e.kind = "listed"))
            /\ outcome.stats.directory_count =
                   DirectoriesReturned(SelectSeq(listed, LAMBDA e : e.kind = "listed"))
            /\ \A i \in 1..Len(listed) : \A k \in Directories(listed[i].contents) :
                   \/ listed[i].depth + 1 > request.max_depth
                   \/ Child(listed[i], k) \in visited
                   \/ Cardinality(visited) >= MaxVisited

\* A directory below the root could not be listed, and a directory dequeued
\* after it was listed and its files counted.
C13_Witness ==
    /\ ScanDone
    /\ ~outcome.raised
    /\ LET listed == Listed
       IN  \E i, j \in 1..Len(listed) :
              /\ i < j
              /\ listed[i].kind = "raised"
              /\ listed[i].depth > 0
              /\ listed[j].kind = "listed"
              /\ Files(listed[j].contents) # {}
    /\ outcome.stats.file_count > 0

\* C14: every scan ends, because each iteration of its loop either lists a
\* directory not visited before, of which there are never more than the
\* limit, or shortens the queue; it never lists more than the limit of
\* distinct directories, and once that many have been visited the loop stops
\* before anything else is dequeued, whatever is left in the queue.
C14_ScanTerminates ==
    /\ [](Cardinality(visited) <= MaxVisited /\ Len(Listed) <= MaxVisited)
    /\ [][pc = "scan" =>
              \/ pc' = "done" /\ queue' = queue /\ trace' = trace
              \/ /\ Cardinality(visited) < MaxVisited
                 /\ pc' = "scan"
                 /\ \/ Cardinality(visited') = Cardinality(visited) + 1
                    \/ visited' = visited /\ Len(queue') = Len(queue) - 1]_vars

\* A scan has stopped at the limit with directories still queued.
C14_Witness ==
    /\ ScanDone
    /\ Cardinality(visited) = MaxVisited
    /\ queue # <<>>
    /\ \E i \in 1..Len(queue) : queue[i].path \notin visited

\* The scan dequeues and lists a directory at depth max_depth in this step.
ListsAtMaxDepth ==
    /\ pc = "scan"
    /\ Len(trace') = Len(trace) + 1
    /\ trace'[Len(trace')].kind = "listed"
    /\ trace'[Len(trace')].depth = request.max_depth

\* C15: no directory deeper than max_depth is ever listed, the max_depth of
\* the stats never exceeds the limit, and the listing of a directory at
\* depth max_depth adds each of its entries to the counts.
C15_DepthBound ==
    /\ [](/\ \A i \in 1..Len(Listed) : Listed[i].depth <= request.max_depth
          /\ ScanStarted => stats.max_depth <= request.max_depth)
    /\ [][ListsAtMaxDepth =>
              LET contents == trace'[Len(trace')].contents
              IN  /\ stats'.directory_count =
                        stats.directory_count + Cardinality(Directories(contents))
                  /\ stats'.file_count =
                        stats.file_count + Cardinality(Files(contents))]_vars

\* A directory at depth max_depth was listed, a directory and a file found
\* in it were counted, and the directory found in it was dequeued one level
\* too deep and skipped.
C15_Witness ==
    /\ ScanDone
    /\ \E i, j \in 1..Len(trace) :
          /\ i < j
          /\ trace[i].kind = "listed"
          /\ trace[i].depth = request.max_depth
          /\ Directories(trace[i].contents) # {}
          /\ Files(trace[i].contents) # {}
          /\ trace[j].kind = "skipped"
          /\ trace[j].depth = request.max_depth + 1
          /\ trace[j].path \notin visited
    /\ outcome.stats.max_depth = request.max_depth
    /\ outcome.stats.directory_count > 0
    /\ outcome.stats.file_count > 0

\* The entries the scan has enqueued so far, the root first.
Enqueued == Dequeued \o [i \in 1..Len(queue) |->
                            [path |-> queue[i].path, depth |-> queue[i].depth]]

\* C16: throughout a scan, and so at its end, directory_count is the number
\* of directory entries and file_count the number of file entries returned
\* by the listings of the directories that were listed; the queue has
\* received the root and one entry per directory entry counted, each one
\* level below the listed directory it was found in.
C16_ScanCounters ==
    ScanStarted =>
        /\ stats.directory_count = DirectoriesReturned(Listed)
        /\ stats.file_count = FilesReturned(Listed)
        /\ Len(Enqueued) = 1 + stats.directory_count
        /\ Enqueued[1].path = request.path /\ Enqueued[1].depth = 0
        /\ \A n \in 2..Len(Enqueued) :
              \E i \in 1..Len(Listed) : \E k \in Directories(Listed[i].contents) :
                  /\ Enqueued[n].path = Child(Listed[i], k)
                  /\ Enqueued[n].depth = Listed[i].depth + 1

\* A finished scan that found the same directory twice in one listing, and
\* files: the directory is counted twice.
C16_Witness ==
    /\ ScanDone
    /\ \E i \in 1..Len(Listed) : \E k, l \in Directories(Listed[i].contents) :
          k # l /\ Listed[i].contents[k] = Listed[i].contents[l]
    /\ outcome.stats.directory_count >= 3
    /\ outcome.stats.file_count >= 1
    /\ Cardinality(visited) < outcome.stats.directory_count

\* The root handed to the scan is empty, or the daemon refuses to list it.
BadRoot ==
    \/ request.path = <<>>
    \/ Listed # <<>> /\ Listed[1].kind = "raised"

\* C18 as stated: the scan raises when its root is empty or invalid, and in
\* no other case.
C18_RaisesOnBadRoot ==
    ScanDone => (outcome.raised <=> BadRoot)

\* C18: the scan raises in no case, whatever the directories contain and
\* also when its root is empty or cannot be listed; a root that cannot be
\* listed gives stats with no files, no directories and max_depth 0.
C18_NeverRaises ==
    ScanDone =>
        /\ ~outcome.raised
        /\ (Listed # <<>> /\ Listed[1].kind = "raised") =>
              /\ outcome.stats.file_count = 0
              /\ outcome.stats.directory_count = 0
              /\ outcome.stats.max_depth = 0
              /\ Len(Dequeued) = 1

\* The scan of an empty root whose listing raised has returned its stats.
C18_Witness ==
    /\ ScanDone
    /\ request.path = <<>>
    /\ Len(Listed) = 1
    /\ Listed[1].kind = "raised"
    /\ "stats" \in DOMAIN outcome

\* One of the three entry points of the core has returned or raised.
Finished ==
    /\ pc = "done"
    /\ request.entry \in {"calculate_optimal_piece_size", "analyze_qbittorrent_path",
                          "create_torrent"}

\* The result is a dict with a success flag, and with an error message when
\* the flag is false.
Structured ==
    /\ "success" \in DOMAIN outcome
    /\ ~outcome.success => "error" \in DOMAIN outcome

\* C17 as stated: after any failure of the login, of a directory listing, of
\* add-task or of a status poll, the entry point returns a structured result
\* whose success flag is false and that carries an error message.
C17_EveryFailureFails ==
    (Finished /\ failures \cap {"login", "listing", "add_task", "status"} # {}) =>
        /\ Structured
        /\ ~outcome.success

\* C17: the three entry points always return a structured result, never an
\* exception; the success flag is false, with an error message, after a
\* failed login, a failed status poll, and an add-task failure that left no
\* task (the retry with minimal parameters failed too, or the failure was a
\* 409 or 404).  A failed directory listing alone does not make it false.
C17_StructuredResults ==
    Finished =>
        /\ Structured
        /\ ("login" \in failures \/ "status" \in failures
                \/ ("add_task" \in failures /\ ~task.added)) => ~outcome.success
        /\ (request.entry = "analyze_qbittorrent_path" /\ failures = {"listing"}) =>
                outcome.success

\* create_torrent has returned its failure result after a status poll raised
\* on a task that the retry of add-task had started.
C17_Witness ==
    /\ Finished
    /\ request.entry = "create_torrent"
    /\ failures = {"add_task", "status"}
    /\ task.added
    /\ Structured
    /\ ~outcome.success

\* ------------------------------------------------------------------------
\* Further properties of the path mapper (checked under SpecMapper)
\* ------------------------------------------------------------------------
\* The positions in sorted_mappings of the rules host_to_container matches,
\* and the rule it applies: the first of them.
SortedHits(p) ==
    {i \in 1..Len(sorted_mappings) :
        StartsWith(Resolve(p), Resolve(sorted_mappings[i].host_prefix))}

Applied(p) == sorted_mappings[Min(SortedHits(p))]

IsAbsolute(s) == s # <<>> /\ Head(s) = "/"

\* C21: when the resolved host path equals the host prefix of the rule that
\* host_to_container applies, the result is that rule's container prefix
\* without trailing separators; otherwise it is the container prefix, one
\* separator and the remainder; and the result is a non-empty absolute path
\* whenever the container prefix is one.
C21_RewriteShape ==
    (call.op = "host_to_container" /\ path_mapping # <<>>
        /\ SortedHits(call.arg) # {}) =>
        LET rule == Applied(call.arg)
            prefix == RStrip(rule.container_prefix)
            remainder == LStrip(Slice(Resolve(call.arg),
                                      Len(Resolve(rule.host_prefix))))
        IN  /\ Resolve(call.arg) = Resolve(rule.host_prefix) => ret = prefix
            /\ Resolve(call.arg) # Resolve(rule.host_prefix) =>
                 /\ remainder # <<>>
                 /\ ret = prefix \o <<"/">> \o remainder
            /\ IsAbsolute(rule.container_prefix) => IsAbsolute(ret)

\* The place of a rule in the configured order.
Configured(rule) == CHOOSE i \in 1..Len(path_mapping) : path_mapping[i] = rule

\* Rule a is tried before rule b: its configured host prefix is longer, or
\* as long and configured earlier.
TriedBefore(a, b) ==
    \/ Len(a.host_prefix) > Len(b.host_prefix)
    \/ /\ Len(a.host_prefix) = Len(b.host_prefix)
       /\ Configured(a) < Configured(b)

LookupOrder ==
    /\ Len(sorted_mappings) = Len(path_mapping)
    /\ Range(sorted_mappings) = Range(path_mapping)
    /\ \A i, j \in 1..Len(sorted_mappings) :
         i < j => TriedBefore(sorted_mappings[i], sorted_mappings[j])
    /\ (call.op = "host_to_container" /\ HostHits(call.arg) # {}) =>
         \E i \in HostHits(call.arg) :
            /\ \A j \in HostHits(call.arg) \ {i} :
                 TriedBefore(path_mapping[i], path_mapping[j])
            /\ ret = Via(call.arg, i)

\* C22: the order in which the rules are tried is the one computed at
\* construction, longest configured host prefix first and, among host
\* prefixes of equal length, the rule configured earlier first; no lookup
\* changes it, and host_to_container applies the first matching rule in it.
C22_TieBreak ==
    /\ []LookupOrder
    /\ [][sorted_mappings' = sorted_mappings /\ path_mapping' = path_mapping]_vars

\* A lookup matched by two rules whose host prefixes have the same length and
\* which would rewrite the path differently.
C22_Witness ==
    /\ call.op = "host_to_container"
    /\ \E i, j \in HostHits(call.arg) :
         /\ i < j
         /\ Len(path_mapping[i].host_prefix) = Len(path_mapping[j].host_prefix)
         /\ Via(call.arg, i) # Via(call.arg, j)
         /\ ret = Via(call.arg, i)

\* The configured host prefixes that are not on disk, in configured order.
Missing ==
    SelectSeq([i \in 1..Len(path_mapping) |-> path_mapping[i].host_prefix],
              LAMBDA h : h \notin call.existing)

\* C23: validate_mapping warns about exactly the host prefixes that do not
\* exist on disk, every issue is a pair of overlapping host prefixes, and
\* is_valid is true exactly when no two host prefixes overlap, whatever is
\* missing.
C23_MissingIsAWarning ==
    call.op = "validate_mapping" =>
        /\ ret.warnings = Missing
        /\ \A k \in 1..Len(ret.issues) :
             Overlaps(ret.issues[k][1], ret.issues[k][2])
        /\ ret.is_valid <=> NoOverlap

\* Two rules, both host prefixes missing and not overlapping, validated.
C23_Witness ==
    /\ call.op = "validate_mapping"
    /\ Len(path_mapping) = 2
    /\ call.existing = {}
    /\ Len(ret.warnings) = 2
    /\ NoOverlap
    /\ ret.is_valid

\* C26: for a rule set that validate_mapping reports as valid (no two host
\* prefixes overlap), at most one rule's host prefix matches the host path
\* of a host_to_container or is_path_mapped call, so the result is the same
\* in whichever order the rules were configured.
C26_MatchingAgreesWithValidation ==
    (call.op \in {"host_to_container", "is_path_mapped"}
        /\ validate_mapping(path_mapping, {}).is_valid) =>
        /\ Cardinality(SortedHits(call.arg)) <= 1
        /\ \A other \in Mappings :
             Range(other) = Range(path_mapping) =>
                ret = IF call.op = "host_to_container"
                      THEN host_to_container(other, SortedMappings(other), call.arg)
                      ELSE is_path_mapped(other, SortedMappings(other), call.arg)

\* ------------------------------------------------------------------------
\* Further properties of piece sizing (checked under SpecAdvisor)
\* ------------------------------------------------------------------------
\* C25: whenever _calculate_piece_size_options returns (total_bytes > 0 and
\* target_pieces > 0), its recommended option is one of the options it
\* returns, the top 8 by score.
C25_RecommendedIsReturned ==
    (Direct /\ HasRecommendation) =>
        outcome.recommended \in Range(outcome.options)

\* ------------------------------------------------------------------------
\* Further properties of the recursive scan (checked under SpecCore)
\* ------------------------------------------------------------------------
IsPrefix(s, t) == Len(s) <= Len(t) /\ SubSeq(t, 1, Len(s)) = s

\* The (path, depth) entries the scan has enqueued so far, in order.
EnqueuedEntries ==
    [i \in 1..Len(Enqueued) |-> Entry(Enqueued[i].path, Enqueued[i].depth)]

\* C24: during a scan each step dequeues at most one entry, entries leave
\* the queue in the order in which they entered it, no path is listed twice,
\* and the directories are listed, and the entries dequeued, in
\* non-decreasing depth order.
C24_ListingOrder ==
    /\ [](ScanStarted =>
            /\ \A i, j \in 1..Len(Listed) :
                 i < j => /\ Listed[i].path # Listed[j].path
                          /\ Listed[i].depth <= Listed[j].depth
            /\ \A i, j \in 1..Len(Enqueued) :
                 i < j => Enqueued[i].depth <= Enqueued[j].depth)
    /\ [][pc = "scan" =>
            /\ Len(Dequeued') <= Len(Dequeued) + 1
            /\ IsPrefix(EnqueuedEntries, EnqueuedEntries')
            /\ Len(Dequeued') = Len(Dequeued) + 1 =>
                 /\ Dequeued'[Len(Dequeued')].path = Head(queue).path
                 /\ Dequeued'[Len(Dequeued')].depth = Head(queue).depth]_vars

\* A finished scan that listed directories at two depths and dequeued a
\* path it had already listed, within the depth limit, without listing it
\* again.
C24_Witness ==
    /\ ScanDone
    /\ \E i, j \in 1..Len(trace) :
         /\ i < j
         /\ trace[i].kind = "listed"
         /\ trace[j].kind = "skipped"
         /\ trace[j].path = trace[i].path
         /\ trace[j].depth <= request.max_depth
    /\ \E i, j \in 1..Len(Listed) : Listed[i].depth < Listed[j].depth

\* ------------------------------------------------------------------------
\* Properties of create_torrent (checked under SpecCore)
\* ------------------------------------------------------------------------
CreateReturned == pc = "done" /\ request.entry = "create_torrent"

\* C27: once add_task has returned a task, create_torrent has attempted
\* task.delete() exactly once when it returns, on every return path, and
\* never more than once.
C27_TaskDeletedOnce ==
    /\ task.added => task.deletes <= 1
    /\ (CreateReturned /\ task.added) => task.deletes = 1

\* The polls the loop can make: one every poll_interval until max_wait_time.
MaxPolls == max_wait_time \div poll_interval

TimedOut ==
    /\ ~outcome.success
    /\ outcome.error = "Torrent creation timed out"

\* C28: the polling loop makes at most 150 polls, one per 2 s of
\* elapsed_time up to 300 s; every iteration returns or advances
\* elapsed_time, so the loop ends; it goes on only while the polls report
\* neither FINISHED nor FAILED, returns at the poll that reports one of them
\* (or raises), and reports a time-out exactly when 150 polls have reported
\* neither.
C28_PollingTerminates ==
    /\ [](task.added =>
            /\ task.polls <= MaxPolls /\ MaxPolls = 150
            /\ elapsed_time = poll_interval * task.polls
            /\ elapsed_time <= max_wait_time
            /\ pc = "poll" => task.status \in {"none", "Queued", "Running"}
            /\ CreateReturned =>
                 /\ task.status \in {"Queued", "Running"} =>
                      TimedOut /\ task.polls = MaxPolls
                 /\ task.status \in {"Finished", "Failed", "raised"} => ~TimedOut
                 /\ task.status = "Finished" <=> outcome.success)
    /\ [][pc = "poll" =>
            /\ pc' = "done" \/ elapsed_time' = elapsed_time + poll_interval
            /\ pc' = "done" \/ task'.polls = task.polls + 1
            /\ (task'.polls = task.polls + 1
                  /\ task'.status \in {"Finished", "Failed"}) => pc' = "done"]_vars
    /\ [][(pc = "done" /\ task.added) => task' = task]_vars

\* create_torrent has returned the time-out after 150 polls none of which
\* reported FINISHED or FAILED.
C28_Witness ==
    /\ CreateReturned
    /\ task.added
    /\ task.polls = 150
    /\ elapsed_time = 300
    /\ task.status = "Running"
    /\ TimedOut

\* C29: a successful create_torrent whose task was submitted with all its
\* parameters reports the mode of the submission: auto_seeding true and the
\* qBittorrent-managed torrent path when the task was added with
\* start_seeding true (passed or taken from the configuration), otherwise
\* the path of the saved torrent file.
C29_ResultReflectsMode ==
    (CreateReturned /\ outcome.success /\ ~task.minimal) =>
        IF task.start_seeding
        THEN /\ outcome.auto_seeding = "True"
             /\ outcome.torrent_path = "Managed by qBittorrent (auto-seeding)"
        ELSE /\ outcome.auto_seeding # "True"
             /\ outcome.torrent_path = "export_dir/source_name.torrent"

\* ------------------------------------------------------------------------
\* Properties of the client session (checked under SpecSession)
\* ------------------------------------------------------------------------
BetweenCalls == pc = "idle"

LogInFailures == (LogInResults \ {"ok"}) \cup {"no_credentials"}
Cleanups == {"logged_out", "logout_raised", "nothing_to_clean"}

LastOf(s) == s[Len(s)]

\* The call that has just ended, when a step ends one.
Ends(what) ==
    /\ Len(session') = Len(session) + 1
    /\ LastOf(session') \in what

\* C30: between calls a client is cached exactly when the last call that
\* was not a reuse was a _get_qbit_client whose login succeeded; after a
\* failed login or connection, or missing credentials, nothing is cached and
\* the next _get_qbit_client starts a new connection; a cached client is
\* returned without a login; cleanup leaves nothing cached, also when the
\* logout raised.
C30_ClientSession ==
    /\ [](BetweenCalls =>
            /\ qbit_client # "None" <=>
                 \E i \in 1..Len(session) :
                    /\ session[i] = "logged_in"
                    /\ \A j \in (i + 1)..Len(session) : session[j] = "reused"
            /\ (session # <<>> /\ LastOf(session) \in LogInFailures \cup Cleanups) =>
                 qbit_client = "None")
    /\ [][/\ Ends(LogInFailures \cup Cleanups) => qbit_client' = "None"
          /\ Ends({"reused"}) =>
               /\ qbit_client = "client" /\ qbit_client' = qbit_client
               /\ pc = "idle" /\ pc' = "idle"
          /\ Ends({"logged_in"} \cup LogInResults) => pc = "auth_log_in"
          /\ (BetweenCalls /\ qbit_client = "None" /\ session' # session) =>
               LastOf(session') \in {"no_credentials", "nothing_to_clean"}
          /\ (BetweenCalls /\ qbit_client = "None" /\ session' = session) =>
               pc' = "auth_log_in"]_vars

\* A session in which a login failed, the next call logged in, the client
\* was then reused, and a cleanup whose logout raised cleared it.
C30_Witness ==
    /\ BetweenCalls
    /\ qbit_client = "None"
    /\ Len(session) = 4
    /\ session[1] \in LogInResults \ {"ok"}
    /\ session[2] = "logged_in"
    /\ session[3] = "reused"
    /\ session[4] = "logout_raised"

====
